---- MODULE Spec2Model ----
(***************************************************************************)
(* Campus Connect server (src/index.js): the three module-level datasets,  *)
(* their JSON files under data/, the startup load and merge, the admin     *)
(* replace handlers, the read handlers, the search handler and the         *)
(* campus-connect handler with its suspension on the language-model call.  *)
(*                                                                         *)
(* JSON values are records tagged with "type":                             *)
(*   [type |-> "array", items |-> <<...>>]   [type |-> "null"]             *)
(*   [type |-> "number", n |-> 5]            [type |-> "string", chars..]  *)
(*   [type |-> "object", name |-> "A", ...]  (a field is a key or absent)  *)
(* Object keys are serialized in the order of FieldOrder; strings carry no *)
(* character that needs escaping.                                          *)
(***************************************************************************)
EXTENDS Integers, Sequences, FiniteSets, TLC

VARIABLES
    colleges,          \* let colleges      (index.js:32)
    scholarships,      \* let scholarships  (index.js:64)
    universities,      \* let universities  (index.js:74)
    fileColleges,      \* data/colleges.json
    fileRtuColleges,   \* data/rtu_colleges.json
    fileScholarships,  \* data/scholarships.json
    fileUniversities,  \* data/universities.json
    phase,             \* "boot" until the module body has run, then "serving"
    resp,              \* the response sent last
    running,           \* the campus-connect call on the stack, inside main()
    pending            \* campus-connect calls suspended on generateContent

vars == <<colleges, scholarships, universities, fileColleges, fileRtuColleges,
          fileScholarships, fileUniversities, phase, resp, running, pending>>

store == <<colleges, scholarships, universities>>
files == <<fileColleges, fileRtuColleges, fileScholarships, fileUniversities>>

-----------------------------------------------------------------------------
(* Strings *)

Min(a, b) == IF a < b THEN a ELSE b

UpperLetters == "ABCDEFGHIJKLMNOPQRSTUVWXYZ"
LowerLetters == "abcdefghijklmnopqrstuvwxyz"
Digits == "0123456789"

CharAt(s, i) == SubSeq(s, i, i)

LowerOf == [c \in {CharAt(UpperLetters, i) : i \in 1..Len(UpperLetters)} |->
               CharAt(LowerLetters, CHOOSE i \in 1..Len(UpperLetters) : CharAt(UpperLetters, i) = c)]

LowerChar(c) == IF c \in DOMAIN LowerOf THEN LowerOf[c] ELSE c

RECURSIVE toLowerCase(_)
toLowerCase(s) ==
    IF Len(s) = 0 THEN ""
    ELSE LowerChar(CharAt(s, 1)) \o toLowerCase(SubSeq(s, 2, Len(s)))

\* String.prototype.slice(0, n) and Array.prototype.slice(0, n), n >= 0
slice(s, n) == SubSeq(s, 1, Min(n, Len(s)))

RECURSIVE trimStart(_)
trimStart(s) ==
    IF Len(s) > 0 /\ CharAt(s, 1) = " " THEN trimStart(SubSeq(s, 2, Len(s))) ELSE s

RECURSIVE trimEnd(_)
trimEnd(s) ==
    IF Len(s) > 0 /\ CharAt(s, Len(s)) = " " THEN trimEnd(SubSeq(s, 1, Len(s) - 1)) ELSE s

trim(s) == trimEnd(trimStart(s))

IsDigit(c) == \E i \in 1..Len(Digits) : CharAt(Digits, i) = c
DigitValue(c) == (CHOOSE i \in 1..Len(Digits) : CharAt(Digits, i) = c) - 1

RECURSIVE DecimalValue(_)
DecimalValue(s) ==
    IF Len(s) = 0 THEN 0
    ELSE 10 * DecimalValue(SubSeq(s, 1, Len(s) - 1)) + DigitValue(CharAt(s, Len(s)))

NaN == [nan |-> TRUE, n |-> 0]
Finite(n) == [nan |-> FALSE, n |-> n]

\* Number(string): blank is 0, a run of decimal digits is its value, else NaN
NumberOfString(s) ==
    LET t == trim(s) IN
    IF t = "" THEN Finite(0)
    ELSE IF \A i \in 1..Len(t) : IsDigit(CharAt(t, i)) THEN Finite(DecimalValue(t))
    ELSE NaN

-----------------------------------------------------------------------------
(* JSON values and JSON.stringify(value, null, gap) *)

Null == [type |-> "null"]
Num(n) == [type |-> "number", n |-> n]
Arr(items) == [type |-> "array", items |-> items]
Str(s) == [type |-> "string", chars |-> s]

IsArray(v) == v.type = "array"

FieldOrder == <<"name", "location", "category", "branches", "hostel", "fee">>

Has(v, k) == k \in DOMAIN v

Keys(v) == SelectSeq(FieldOrder, LAMBDA k : Has(v, k))

Quote(s) == "\"" \o s \o "\""

RECURSIVE Join(_, _)
Join(parts, sep) ==
    IF Len(parts) = 0 THEN ""
    ELSE IF Len(parts) = 1 THEN parts[1]
    ELSE LET m == Len(parts) \div 2 IN
         Join(SubSeq(parts, 1, m), sep) \o sep \o Join(SubSeq(parts, m + 1, Len(parts)), sep)

Wrap(open, close, parts, gap, ind) ==
    IF Len(parts) = 0 THEN open \o close
    ELSE IF gap = "" THEN open \o Join(parts, ",") \o close
    ELSE open \o "\n" \o ind \o gap \o Join(parts, ",\n" \o ind \o gap) \o "\n" \o ind \o close

SerField(v, k, gap, ind) ==
    IF k = "fee" THEN ToString(v[k])
    ELSE IF k = "branches"
    THEN Wrap("[", "]", [i \in 1..Len(v[k]) |-> Quote(v[k][i])], gap, ind)
    ELSE Quote(v[k])

SerMember(v, k, gap, ind) ==
    Quote(k) \o (IF gap = "" THEN ":" ELSE ": ") \o SerField(v, k, gap, ind)

SerItem(v, gap, ind) ==
    CASE v.type = "null" -> "null"
      [] v.type = "number" -> ToString(v.n)
      [] v.type = "string" -> Quote(v.chars)
      [] v.type = "object" ->
            LET ks == Keys(v) IN
            Wrap("{", "}", [i \in 1..Len(ks) |-> SerMember(v, ks[i], gap, ind \o gap)], gap, ind)

JSONstringify(v, gap) ==
    IF IsArray(v)
    THEN Wrap("[", "]", [i \in 1..Len(v.items) |-> SerItem(v.items[i], gap, gap)], gap, "")
    ELSE SerItem(v, gap, "")

-----------------------------------------------------------------------------
(* The records the model draws file contents and request bodies from *)

cA == [type |-> "object", name |-> "A", location |-> "Pune", branches |-> <<"CS">>,
       hostel |-> "Yes", fee |-> 100]
cB == [type |-> "object", name |-> "B", location |-> "Pune", branches |-> <<"ME">>, fee |-> 200]
cA2 == [type |-> "object", name |-> "a", location |-> "Delhi", fee |-> 120]
cNoLocation == [type |-> "object", name |-> "X"]
cNoName == [type |-> "object", location |-> "Kota", hostel |-> "No"]
cNoName2 == [type |-> "object", location |-> "Ajmer"]
cEmptyName == [type |-> "object", name |-> "", location |-> "Pune"]
rA == [type |-> "object", name |-> "a", location |-> "Kota", fee |-> 50]
rX2 == [type |-> "object", name |-> "x", location |-> "Jaipur", branches |-> <<"cs", "EE">>]
rEmptyName == [type |-> "object", name |-> ""]
sMerit == [type |-> "object", name |-> "Merit", category |-> "General"]
sNeed == [type |-> "object", name |-> "Need", category |-> "OBC"]
sNoCategory == [type |-> "object", name |-> "Z"]
uRTU == [type |-> "object", name |-> "RTU", location |-> "Kota"]
uUOR == [type |-> "object", name |-> "UOR"]

CollegeDocs ==
    { Arr(<<>>), Arr(<<cA, cB>>), Arr(<<cA, cA2, cB>>), Arr(<<cNoName, cB, cNoName2>>),
      Arr(<<cA, Null>>), Arr(<<cB, cNoLocation>>), cA, Null, Num(7) }

RtuDocs ==
    { Arr(<<rA, cNoLocation, rX2, rEmptyName, Null>>), Arr(<<cNoLocation, cB, cNoName>>),
      Arr(<<>>), cB, Num(7) }

ScholarshipDocs == { Arr(<<>>), Arr(<<sMerit, sNeed>>), Arr(<<sNeed>>), sMerit, Null, Str("none") }

UniversityDocs == { Arr(<<uRTU, uUOR>>), Arr(<<>>), uRTU, Null, Num(0), Num(7), Str("") }

CollegePayloads ==
    { Arr(<<cB, cA>>), Arr(<<cA, cNoLocation>>), Arr(<<cEmptyName, Num(7)>>), Arr(<<cB, Null>>), cA }

ScholarshipPayloads ==
    { Arr(<<sNeed>>), Arr(<<sMerit, sNoCategory>>), sMerit }

\* Datasets larger than the caps of the prompt: n records numbered in order,
\* short ones and ones longer than a cap's share of characters.
LongName ==
    "Rajasthan Technical University Affiliated Institute of Engineering and Technology for Advanced Studies at Kota"

Numbered(name, n) == Arr([i \in 1..n |-> [type |-> "object", name |-> name, fee |-> i]])

LargeUniversityDocs ==
    { Numbered("U", 99), Numbered("U", 101), Numbered(LongName, 30), Numbered(LongName, 101) }

LargeCollegeDocs ==
    { Numbered("C", 200), Numbered("C", 201), Numbered(LongName, 140), Numbered(LongName, 201) }

LargeScholarshipDocs == { Numbered("S", 201), Numbered(LongName, 200) }

Documents ==
    CollegeDocs \cup RtuDocs \cup ScholarshipDocs \cup UniversityDocs
        \cup CollegePayloads \cup ScholarshipPayloads
        \cup LargeUniversityDocs \cup LargeCollegeDocs \cup LargeScholarshipDocs

-----------------------------------------------------------------------------
(* Files and JSON.parse *)

Absent == [exists |-> FALSE, text |-> ""]
FileOf(text) == [exists |-> TRUE, text |-> text]
Garbage == FileOf("{oops")

\* JSON.parse: the document whose compact or indented serialization the text
\* is; any other text is a SyntaxError.
CompactText == [d \in Documents |-> JSONstringify(d, "")]
IndentedText == [d \in Documents |-> JSONstringify(d, "  ")]

Parses(d, text) == CompactText[d] = text \/ IndentedText[d] = text

JSONparse(text) ==
    IF \E d \in Documents : Parses(d, text)
    THEN [threw |-> FALSE, value |-> CHOOSE d \in Documents : Parses(d, text)]
    ELSE [threw |-> TRUE, value |-> Null]

\* fs.readFileSync + JSON.parse inside one try block
ReadJSON(file) ==
    IF file.exists THEN JSONparse(file.text) ELSE [threw |-> TRUE, value |-> Null]

-----------------------------------------------------------------------------
(* Startup: load, merge (index.js:30-83) *)

\* index.js:32-38 and 64-70: the parsed value, whatever its type, or []
LoadDataset(file) ==
    LET r == ReadJSON(file) IN IF r.threw THEN Arr(<<>>) ELSE r.value

\* A JavaScript Map: entries in insertion order; set() on a present key
\* replaces the value in place.
MapHas(m, k) == \E i \in 1..Len(m) : m[i].key = k

\* set() that appends even when the key is present
MapSetAppending(m, k, v) == Append(m, [key |-> k, value |-> v])

MapSet(m, k, v) ==
    IF MapHas(m, k)
    THEN [i \in 1..Len(m) |-> IF m[i].key = k THEN [key |-> k, value |-> v] ELSE m[i]]
    ELSE Append(m, [key |-> k, value |-> v])

RECURSIVE MapFrom(_, _)
MapFrom(m, entries) ==
    IF Len(entries) = 0 THEN m
    ELSE MapFrom(MapSet(m, entries[1].key, entries[1].value), Tail(entries))

MapValues(m) == [i \in 1..Len(m) |-> m[i].value]

\* String(c.name).toLowerCase()
PrimaryKey(c) == toLowerCase(IF Has(c, "name") THEN c.name ELSE "undefined")

\* String(c?.name || "").toLowerCase()
SupplementalKey(c) == toLowerCase(IF Has(c, "name") THEN c.name ELSE "")

\* the loop without its has() test: a supplemental record overwrites
RECURSIVE InsertSupplementalOverwriting(_, _)
InsertSupplementalOverwriting(byName, rtu) ==
    IF Len(rtu) = 0 THEN byName
    ELSE LET c == rtu[1]
             key == SupplementalKey(c)
         IN  InsertSupplementalOverwriting(
                 IF key # "" THEN MapSet(byName, key, c) ELSE byName, Tail(rtu))

RECURSIVE InsertSupplemental(_, _)
InsertSupplemental(byName, rtu) ==
    IF Len(rtu) = 0 THEN byName
    ELSE LET c == rtu[1]
             key == SupplementalKey(c)
         IN  InsertSupplemental(
                 IF key # "" /\ ~MapHas(byName, key) THEN MapSet(byName, key, c) ELSE byName,
                 Tail(rtu))

\* index.js:47: colleges.map(c => [String(c.name)...]) throws a TypeError when
\* colleges is no array or holds a null
PrimaryMapThrows(cols) ==
    ~IsArray(cols) \/ \E i \in 1..Len(cols.items) : cols.items[i] = Null

\* index.js:47-55, for arrays colleges and rtuColleges
Merge(primary, supplemental) ==
    MapValues(InsertSupplemental(
        MapFrom(<<>>, [i \in 1..Len(primary) |-> [key |-> PrimaryKey(primary[i]), value |-> primary[i]]]),
        supplemental))

\* index.js:42-60
MergeRtuColleges(cols, rtuFile) ==
    IF ~rtuFile.exists THEN cols
    ELSE LET r == JSONparse(rtuFile.text) IN
         IF r.threw \/ ~IsArray(r.value) \/ PrimaryMapThrows(cols) THEN cols
         ELSE Arr(Merge(cols.items, r.value.items))

\* a JavaScript value's truthiness
Truthy(v) ==
    CASE v.type = "null" -> FALSE
      [] v.type = "number" -> v.n # 0
      [] v.type = "string" -> v.chars # ""
      [] OTHER -> TRUE

\* index.js:74-83
LoadUniversities(file) ==
    IF ~file.exists THEN Arr(<<>>)
    ELSE LET r == JSONparse(file.text) IN
         IF r.threw THEN Arr(<<>>)
         ELSE IF IsArray(r.value) THEN r.value
         ELSE IF Truthy(r.value) THEN Arr(<<r.value>>)
         ELSE Arr(<<>>)

NoResponse == [status |-> 0, body |-> Null]
Idle == [pc |-> "idle"]

Startup ==
    /\ phase = "boot"
    /\ colleges' = MergeRtuColleges(LoadDataset(fileColleges), fileRtuColleges)
    /\ scholarships' = LoadDataset(fileScholarships)
    /\ universities' = LoadUniversities(fileUniversities)
    /\ phase' = "serving"
    /\ UNCHANGED <<files, resp, running, pending>>

\* The files a deployment may hold: absent, unparseable, or any document
Written(d) == FileOf(IndentedText[d])
FilesOf(docs) == {Absent, Garbage} \cup {Written(d) : d \in docs}

InitBindings ==
    /\ colleges = Arr(<<>>)
    /\ scholarships = Arr(<<>>)
    /\ universities = Arr(<<>>)
    /\ phase = "boot"
    /\ resp = NoResponse
    /\ running = Idle
    /\ pending = {}

-----------------------------------------------------------------------------
(* Responses *)

Undefined == [def |-> FALSE, n |-> 0]
Defined(n) == [def |-> TRUE, n |-> n]

\* v.length: a TypeError on null, undefined on an object or a number
LengthThrows(v) == v.type = "null"

Length(v) ==
    CASE v.type = "array" -> Defined(Len(v.items))
      [] v.type = "string" -> Defined(Len(v.chars))
      [] OTHER -> Undefined

Response(status, body) == [status |-> status, body |-> body]

\* an exception that leaves a handler without a try block: Express answers 500
Uncaught == Response(500, [error |-> "TypeError"])

\* handlers dispatched while another is on the stack
ServingPreemptive == phase = "serving"

\* A handler is entered only after the module body has run (app.listen is its
\* last statement) and when no other handler is on the stack.
Serving == phase = "serving" /\ running = Idle

-----------------------------------------------------------------------------
(* POST /admin/colleges and POST /admin/scholarships (index.js:86-107, 115-134) *)

\* !item.name, for a field that holds a string when present
Falsy(item, k) == ~Has(item, k) \/ item[k] = ""

\* !item || typeof item !== "object" || !item.name || !item[second]
ItemRejected(item, second) ==
    \/ item.type = "null"
    \/ item.type \notin {"object", "array"}
    \/ Falsy(item, "name")
    \/ Falsy(item, second)

\* a validation that looks at the first element only
FirstItemRejected(payload, second) ==
    Len(payload.items) > 0 /\ ItemRejected(payload.items[1], second)

PayloadRejected(payload, second) ==
    \E i \in 1..Len(payload.items) : ItemRejected(payload.items[i], second)

\* What a failing fs call leaves behind. mkdirSync fails before the file is
\* touched; writeFileSync opens with flag "w", which truncates, and a write
\* that fails after the open leaves the bytes written so far.
FsFaults == {"none", "mkdirSync", "write"}
Cuts == {0, 1}

FileAfterWrite(file, text, fault, cut) ==
    CASE fault = "none" -> FileOf(text)
      [] fault = "write" -> FileOf(slice(text, cut * (Len(text) \div 2)))
      [] OTHER -> file

\* The handler's three effects, each with the conditions it is reached
\* under: the response sent, the value left in the binding, the file left.
ReplaceResponse(payload, second, what, fault) ==
    IF ~IsArray(payload)
    THEN Response(400, [error |-> "Body must be an array of " \o what \o " objects"])
    ELSE IF PayloadRejected(payload, second)
    THEN Response(400, [error |-> "Each item must include at least 'name' and '" \o second \o "'"])
    ELSE IF fault # "none"
    THEN Response(500, [error |-> "Failed to save dataset"])
    ELSE Response(200, [ok |-> TRUE, count |-> Length(payload)])

\* the assignment moved before the write
ReplaceValueSwapFirst(current, payload, second, fault) ==
    IF ~IsArray(payload) THEN current
    ELSE IF PayloadRejected(payload, second) THEN current
    ELSE payload

ReplaceValue(current, payload, second, fault) ==
    IF ~IsArray(payload) THEN current
    ELSE IF PayloadRejected(payload, second) THEN current
    ELSE IF fault # "none" THEN current
    ELSE payload

ReplaceFile(file, payload, second, fault, cut) ==
    IF ~IsArray(payload) THEN file
    ELSE IF PayloadRejected(payload, second) THEN file
    ELSE FileAfterWrite(file, JSONstringify(payload, "  "), fault, cut)

\* The handler run on one request body, with the fault the file system
\* injects into it and, for a failing write, how far the write got.
AdminColleges(payload, fault, cut) ==
    /\ Serving
    /\ resp' = ReplaceResponse(payload, "location", "college", fault)
    /\ colleges' = ReplaceValue(colleges, payload, "location", fault)
    /\ fileColleges' = ReplaceFile(fileColleges, payload, "location", fault, cut)
    /\ UNCHANGED <<scholarships, universities, fileRtuColleges, fileScholarships,
                   fileUniversities, phase, running, pending>>

AdminScholarships(payload, fault, cut) ==
    /\ Serving
    /\ resp' = ReplaceResponse(payload, "category", "scholarship", fault)
    /\ scholarships' = ReplaceValue(scholarships, payload, "category", fault)
    /\ fileScholarships' = ReplaceFile(fileScholarships, payload, "category", fault, cut)
    /\ UNCHANGED <<colleges, universities, fileColleges, fileRtuColleges,
                   fileUniversities, phase, running, pending>>

CutsOf(fault) == IF fault = "write" THEN Cuts ELSE {0}

PostAdminColleges ==
    \E payload \in CollegePayloads, fault \in FsFaults :
        \E cut \in CutsOf(fault) : AdminColleges(payload, fault, cut)

PostAdminScholarships ==
    \E payload \in ScholarshipPayloads, fault \in FsFaults :
        \E cut \in CutsOf(fault) : AdminScholarships(payload, fault, cut)

-----------------------------------------------------------------------------
(* Read handlers (index.js:110-112, 137-139, 142-153) *)

\* res.json({ count: v.length, results: v })
Listing(v) ==
    IF LengthThrows(v) THEN Uncaught
    ELSE Response(200, [count |-> Length(v), results |-> v])

Stats(c, s, u) ==
    IF LengthThrows(c) \/ LengthThrows(s) \/ LengthThrows(u) THEN Uncaught
    ELSE Response(200, [colleges |-> Length(c), scholarships |-> Length(s),
                        universities |-> Length(u)])

\* a read handler that keeps the results it sent in the colleges binding
ReadKeepingResults(response) ==
    /\ Serving
    /\ UNCHANGED <<scholarships, universities, files, phase, running, pending>>
    /\ resp' = response
    /\ colleges' = IF Has(response.body, "results") THEN response.body.results ELSE colleges

Read(response) ==
    /\ Serving
    /\ UNCHANGED <<store, files, phase, running, pending>>
    /\ resp' = response

GetColleges == Read(Listing(colleges))

GetScholarships == Read(Listing(scholarships))

GetStats == Read(Stats(colleges, scholarships, universities))

GetUniversities ==
    Read(IF LengthThrows(universities) THEN Uncaught
         ELSE Response(200, [count |-> Length(universities)]))

-----------------------------------------------------------------------------
(* GET /colleges/search (index.js:171-192) *)

\* A query parameter is a string; "" stands for a parameter that is absent
\* or empty, which `if (location)` treats alike.
Query(location, branch, hostel, maxFee) ==
    [location |-> location, branch |-> branch, hostel |-> hostel, maxFee |-> maxFee]

Queries ==
    { Query(l, b, h, m) : l \in {"", "pune", "Pune"}, b \in {"", "cs", "CS"},
                          h \in {"", "yes", "undefined"}, m \in {"", "150", "abc"} }

Ok(v) == [threw |-> FALSE, value |-> v]
Threw == [threw |-> TRUE, value |-> Null]

\* The elements results.filter visits
Items(results) ==
    IF ~results.threw /\ IsArray(results.value) THEN results.value.items ELSE <<>>

\* results.filter(test): a TypeError when results is no array or the test
\* throws on an element, else the elements kept
Filter(results, throws, kept) ==
    IF results.threw THEN Threw
    ELSE IF ~IsArray(results.value) THEN Threw
    ELSE IF throws THEN Threw
    ELSE Ok(Arr(kept))

\* c.location.toLowerCase() === String(location).toLowerCase()
LocationThrows(c) == ~Has(c, "location")
LocationTest(c, location) == toLowerCase(c.location) = toLowerCase(location)

\* c.branches?.some(x => String(x).toLowerCase() === b)
BranchThrows(c) == c.type = "null"
BranchTest(c, b) ==
    Has(c, "branches") /\ \E i \in 1..Len(c.branches) : toLowerCase(c.branches[i]) = b

\* String(c.hostel).toLowerCase() === String(hostel).toLowerCase()
HostelThrows(c) == c.type = "null"
HostelTest(c, hostel) ==
    toLowerCase(IF Has(c, "hostel") THEN c.hostel ELSE "undefined") = toLowerCase(hostel)

\* Number(c.fee) <= cap
FeeThrows(c) == c.type = "null"
FeeTest(c, cap) == Has(c, "fee") /\ c.fee <= cap

ByLocation(results, q) ==
    IF q.location = "" THEN results
    ELSE Filter(results,
                \E i \in 1..Len(Items(results)) : LocationThrows(Items(results)[i]),
                SelectSeq(Items(results), LAMBDA c : LocationTest(c, q.location)))

ByBranch(results, q) ==
    IF q.branch = "" THEN results
    ELSE Filter(results,
                \E i \in 1..Len(Items(results)) : BranchThrows(Items(results)[i]),
                SelectSeq(Items(results), LAMBDA c : BranchTest(c, toLowerCase(q.branch))))

ByHostel(results, q) ==
    IF q.hostel = "" THEN results
    ELSE Filter(results,
                \E i \in 1..Len(Items(results)) : HostelThrows(Items(results)[i]),
                SelectSeq(Items(results), LAMBDA c : HostelTest(c, q.hostel)))

ByMaxFee(results, q) ==
    IF q.maxFee = "" \/ NumberOfString(q.maxFee).nan THEN results
    ELSE Filter(results,
                \E i \in 1..Len(Items(results)) : FeeThrows(Items(results)[i]),
                SelectSeq(Items(results), LAMBDA c : FeeTest(c, NumberOfString(q.maxFee).n)))

Search(cols, q) ==
    LET results == ByMaxFee(ByHostel(ByBranch(ByLocation(Ok(cols), q), q), q), q) IN
    IF results.threw THEN Uncaught ELSE Listing(results.value)

CollegesSearch(q) == Read(Search(colleges, q))

GetCollegesSearch == \E q \in Queries : CollegesSearch(q)

\* The search of the specification that runs every handler: one query per
\* filter and two combinations.
CommonQueries ==
    { Query("", "", "", ""), Query("pune", "", "", ""), Query("", "CS", "", "150"),
      Query("", "", "yes", ""), Query("Pune", "cs", "", "abc") }

GetCollegesSearchCommon == \E q \in CommonQueries : CollegesSearch(q)

-----------------------------------------------------------------------------
(* POST /campus-connect and main() (index.js:155-168, 198-235) *)

UniversitiesMaxRecords == 100
UniversitiesMaxChars == 5000
CollegesMaxRecords == 200
CollegesMaxChars == 20000
ScholarshipsMaxRecords == 200
ScholarshipsMaxChars == 12000

MaxInflight == 1

\* the text without its second slice
ContextTextUncut(v, maxRecords, maxChars) ==
    CASE v.type = "array" -> Ok(JSONstringify(Arr(slice(v.items, maxRecords)), ""))
      [] v.type = "string" -> Ok(JSONstringify(Str(slice(v.chars, maxRecords)), ""))
      [] OTHER -> Threw

\* JSON.stringify(v.slice(0, maxRecords)).slice(0, maxChars); slice is a
\* method of arrays and of strings only
ContextText(v, maxRecords, maxChars) ==
    CASE v.type = "array" -> Ok(slice(JSONstringify(Arr(slice(v.items, maxRecords)), ""), maxChars))
      [] v.type = "string" -> Ok(slice(JSONstringify(Str(slice(v.chars, maxRecords)), ""), maxChars))
      [] OTHER -> Threw

UniversitiesText(u) == ContextText(u, UniversitiesMaxRecords, UniversitiesMaxChars)
CollegesText(c) == ContextText(c, CollegesMaxRecords, CollegesMaxChars)
ScholarshipsText(s) == ContextText(s, ScholarshipsMaxRecords, ScholarshipsMaxChars)

AskBodies ==
    { [type |-> "object"], [type |-> "object", prompts |-> "  "],
      [type |-> "object", prompts |-> " fees? "] }

\* typeof prompts !== "string" || prompts.trim().length === 0
PromptsRejected(body) == ~Has(body, "prompts") \/ Len(trim(body.prompts)) = 0

InternalError == Response(500, [error |-> "Internal server error"])

\* The handler up to the call of main(): rejected, or on the stack at the
\* first expression of the template literal.
CampusConnect(body) ==
    /\ Serving
    /\ Cardinality(pending) < MaxInflight
    /\ IF PromptsRejected(body)
       THEN /\ resp' = Response(400, [error |-> "Invalid 'prompts': expected non-empty string"])
            /\ running' = Idle
       ELSE /\ resp' = resp
            /\ running' = [pc |-> "universities", question |-> trim(body.prompts),
                           universitiesText |-> "", collegesText |-> "", scholarshipsText |-> "",
                           entered |-> store]
    /\ UNCHANGED <<store, files, phase, pending>>

PostCampusConnect == \E body \in AskBodies : CampusConnect(body)

\* One expression of the template literal: its text is kept and main() moves
\* on, or the TypeError reaches the handler's catch.
Interpolate(pc, text, field, next) ==
    /\ phase = "serving"
    /\ running.pc = pc
    /\ IF text.threw
       THEN /\ resp' = InternalError
            /\ running' = Idle
       ELSE /\ resp' = resp
            /\ running' = [running EXCEPT ![field] = text.value, !.pc = next]
    /\ UNCHANGED <<store, files, phase, pending>>

MainUniversities ==
    Interpolate("universities", UniversitiesText(universities), "universitiesText", "colleges")

MainColleges ==
    Interpolate("colleges", CollegesText(colleges), "collegesText", "scholarships")

MainScholarships ==
    Interpolate("scholarships", ScholarshipsText(scholarships), "scholarshipsText", "call")

\* ai.models.generateContent(...) is called with the finished prompt and the
\* handler suspends at the await.
Prompt(r) ==
    [universitiesText |-> r.universitiesText, collegesText |-> r.collegesText,
     scholarshipsText |-> r.scholarshipsText, question |-> r.question]

MainGenerateContent ==
    /\ phase = "serving"
    /\ running.pc = "call"
    /\ pending' = pending \cup {[prompt |-> Prompt(running), entered |-> running.entered]}
    /\ running' = Idle
    /\ UNCHANGED <<store, files, phase, resp>>

\* What the SDK's promise settles with: a response with text, one without, or
\* a rejection.
Settlements == {[kind |-> "text", text |-> "### Answer"], [kind |-> "empty", text |-> ""],
                [kind |-> "rejected", text |-> ""]}

Resume(call, settled) ==
    /\ resp' = IF settled.kind = "rejected" THEN InternalError
               ELSE Response(200, [text |-> settled.text])
    /\ pending' = pending \ {call}
    /\ UNCHANGED <<store, files, phase, running>>

GenerateContentSettles ==
    /\ Serving
    /\ \E call \in pending, settled \in Settlements : Resume(call, settled)

-----------------------------------------------------------------------------
(* The server: deployments it may start in, and its handlers *)

\* colleges.json, rtu_colleges.json, scholarships.json, universities.json
Deployments ==
    { <<Absent, Garbage, Garbage, Absent>>,
      <<Written(Arr(<<cA, cB>>)), Written(Arr(<<cNoLocation, cB, cNoName>>)),
        Written(Arr(<<sMerit, sNeed>>)), Written(Arr(<<uRTU, uUOR>>))>>,
      <<Written(cA), Written(Arr(<<>>)), Written(Null), Written(uRTU)>>,
      <<Written(Null), Written(cB), Written(Str("none")), Written(Num(7))>> }

InitFiles(deployments) ==
    \E d \in deployments :
        /\ fileColleges = d[1]
        /\ fileRtuColleges = d[2]
        /\ fileScholarships = d[3]
        /\ fileUniversities = d[4]

Init == InitBindings /\ InitFiles(Deployments)

Next ==
    \/ Startup
    \/ PostAdminColleges
    \/ PostAdminScholarships
    \/ GetColleges
    \/ GetScholarships
    \/ GetStats
    \/ GetUniversities
    \/ GetCollegesSearchCommon
    \/ PostCampusConnect
    \/ MainUniversities
    \/ MainColleges
    \/ MainScholarships
    \/ MainGenerateContent
    \/ GenerateContentSettles

Spec == Init /\ [][Next]_vars

-----------------------------------------------------------------------------
(* The colleges dataset alone: every pair of a primary and a supplemental   *)
(* file, loaded, merged, listed and searched.                               *)

InitColleges ==
    /\ InitBindings
    /\ fileColleges \in FilesOf(CollegeDocs)
    /\ fileRtuColleges \in FilesOf(RtuDocs)
    /\ fileScholarships = Absent
    /\ fileUniversities = Absent

NextColleges ==
    \/ Startup
    \/ GetColleges
    \/ GetCollegesSearch

SpecColleges == InitColleges /\ [][NextColleges]_vars

-----------------------------------------------------------------------------
(* The prompt over datasets larger than its caps *)

InitContext ==
    /\ InitBindings
    /\ fileColleges \in {Written(d) : d \in LargeCollegeDocs}
    /\ fileRtuColleges = Absent
    /\ fileScholarships \in {Written(d) : d \in LargeScholarshipDocs \cup {Str("none"), sMerit}}
    /\ fileUniversities \in {Written(d) : d \in LargeUniversityDocs}

NextContext ==
    \/ Startup
    \/ PostCampusConnect
    \/ MainUniversities
    \/ MainColleges
    \/ MainScholarships
    \/ MainGenerateContent
    \/ GenerateContentSettles

SpecContext == InitContext /\ [][NextContext]_vars

-----------------------------------------------------------------------------
(* Merge properties *)

\* What the two files hold when the merge loop runs to its end: both parse to
\* arrays and no primary element is null.
Primary == ReadJSON(fileColleges).value.items
Supplemental == ReadJSON(fileRtuColleges).value.items

MergeRuns ==
    /\ ~ReadJSON(fileColleges).threw /\ IsArray(ReadJSON(fileColleges).value)
    /\ ~ReadJSON(fileRtuColleges).threw /\ IsArray(ReadJSON(fileRtuColleges).value)
    /\ \A i \in 1..Len(Primary) : Primary[i] # Null

Named(c) == Has(c, "name")
SameName(c, d) == Named(c) /\ Named(d) /\ toLowerCase(c.name) = toLowerCase(d.name)

Range(seq) == {seq[i] : i \in 1..Len(seq)}

RECURSIVE Ascending(_)
Ascending(S) ==
    IF S = {} THEN <<>>
    ELSE LET m == CHOOSE x \in S : \A y \in S : x <= y IN <<m>> \o Ascending(S \ {m})

At(seq, indices) == [i \in 1..Len(indices) |-> seq[indices[i]]]

\* C5: after the startup merge no two records of colleges carry the same name
\* up to case, and a record whose name a primary and a supplemental record
\* share is a record of the primary file.
C5_MergePrecedence ==
    [][(Startup /\ MergeRuns) =>
        /\ IsArray(colleges')
        /\ \A i, j \in 1..Len(colleges'.items) :
              i # j => ~SameName(colleges'.items[i], colleges'.items[j])
        /\ \A i \in 1..Len(colleges'.items) :
              (/\ \E p \in Range(Primary) : SameName(p, colleges'.items[i])
               /\ \E r \in Range(Supplemental) : SameName(r, colleges'.items[i]))
              => colleges'.items[i] \in Range(Primary)]_vars

\* A primary record and a different supplemental record share a name, and the
\* merge has kept the primary one and appended another supplemental record.
C5_Witness ==
    /\ phase = "serving"
    /\ MergeRuns
    /\ \E p \in Range(Primary), r \in Range(Supplemental) :
          SameName(p, r) /\ p # r /\ p \in Range(colleges.items) /\ r \notin Range(colleges.items)
    /\ Len(colleges.items) > Len(Primary)

\* The supplemental records the merge inserts: a non-empty name whose
\* lower-cased form no primary key and no earlier supplemental record has.
InsertedIndices ==
    { i \in 1..Len(Supplemental) :
        /\ Named(Supplemental[i]) /\ Supplemental[i].name # ""
        /\ \A p \in Range(Primary) : PrimaryKey(p) # toLowerCase(Supplemental[i].name)
        /\ \A j \in 1..(i - 1) : ~SameName(Supplemental[j], Supplemental[i]) }

Inserted == At(Supplemental, Ascending(InsertedIndices))

FirstOfKey == { i \in 1..Len(Primary) : \A j \in 1..(i - 1) : PrimaryKey(Primary[j]) # PrimaryKey(Primary[i]) }
LastOfKey(i) ==
    CHOOSE j \in 1..Len(Primary) :
        /\ PrimaryKey(Primary[j]) = PrimaryKey(Primary[i])
        /\ \A k \in (j + 1)..Len(Primary) : PrimaryKey(Primary[k]) # PrimaryKey(Primary[i])

PrimaryByKey ==
    LET firsts == Ascending(FirstOfKey) IN [i \in 1..Len(firsts) |-> Primary[LastOfKey(firsts[i])]]

-----------------------------------------------------------------------------
(* Search *)

Satisfies(c, q) ==
    /\ q.location = "" \/ (Has(c, "location") /\ toLowerCase(c.location) = toLowerCase(q.location))
    /\ q.branch = "" \/ (Has(c, "branches")
                            /\ \E x \in Range(c.branches) : toLowerCase(x) = toLowerCase(q.branch))
    /\ q.hostel = "" \/ toLowerCase(IF Has(c, "hostel") THEN c.hostel ELSE "undefined")
                            = toLowerCase(q.hostel)
    /\ q.maxFee = "" \/ NumberOfString(q.maxFee).nan
                     \/ (Has(c, "fee") /\ c.fee <= NumberOfString(q.maxFee).n)

Matching(cols, q) == SelectSeq(cols.items, LAMBDA c : Satisfies(c, q))

\* C7: for every array of colleges the server can hold and every query,
\* search answers with the colleges that satisfy every supplied filter, in
\* store order, and their number.
C7_SearchExact ==
    [][\A q \in Queries :
          (CollegesSearch(q) /\ IsArray(colleges)) =>
              resp' = Response(200, [count |-> Defined(Len(Matching(colleges, q))),
                                     results |-> Arr(Matching(colleges, q))])]_vars

-----------------------------------------------------------------------------
(* Replace *)

ReplaceColleges == \E payload \in CollegePayloads, fault \in FsFaults, cut \in Cuts :
                       AdminColleges(payload, fault, cut)
ReplaceScholarships == \E payload \in ScholarshipPayloads, fault \in FsFaults, cut \in Cuts :
                           AdminScholarships(payload, fault, cut)

\* step => conclusion, with the conclusion evaluated first
Only(step, conclusion) == conclusion \/ ~step

\* C1: a replace whose payload passed validation and whose mkdirSync or
\* writeFileSync fails answers 500 and leaves the three bindings as they were;
\* a listing and the stats answer from the bindings as they are.
C1_FailedWriteKeepsMemory ==
    [][/\ Only(\E payload \in CollegePayloads, fault \in FsFaults \ {"none"}, cut \in Cuts :
                  /\ IsArray(payload) /\ ~PayloadRejected(payload, "location")
                  /\ AdminColleges(payload, fault, cut),
               resp'.status = 500 /\ store' = store)
       /\ Only(\E payload \in ScholarshipPayloads, fault \in FsFaults \ {"none"}, cut \in Cuts :
                  /\ IsArray(payload) /\ ~PayloadRejected(payload, "category")
                  /\ AdminScholarships(payload, fault, cut),
               resp'.status = 500 /\ store' = store)
       /\ IsArray(colleges) /\ GetColleges => resp'.body.results = colleges
       /\ IsArray(scholarships) /\ GetScholarships => resp'.body.results = scholarships
       /\ IsArray(colleges) /\ IsArray(scholarships) /\ GetStats
             => resp'.body = [colleges |-> Defined(Len(colleges.items)),
                              scholarships |-> Defined(Len(scholarships.items)),
                              universities |-> Defined(Len(universities.items))]]_vars

\* A replace of a non-empty collection has just failed on the write.
C1_Witness ==
    /\ resp = Response(500, [error |-> "Failed to save dataset"])
    /\ IsArray(colleges) /\ Len(colleges.items) > 0
    /\ fileColleges = FileOf("")

\* An element fails the required-field check: it is no object, or its name
\* or its second required field is missing or empty.
FailsRequired(item, second) ==
    \/ item.type # "object"
    \/ ~Has(item, "name") \/ ~Has(item, second)
    \/ Has(item, "name") /\ item.name = ""
    \/ Has(item, second) /\ item[second] = ""

Invalid(payload, second) ==
    ~IsArray(payload) \/ \E item \in Range(payload.items) : FailsRequired(item, second)

\* C2: a replace whose payload is no array, or holds an element that fails
\* the required-field check at any position, answers 400 and changes neither
\* a binding nor a file.
C2_RejectedChangesNothing ==
    [][/\ Only(\E payload \in CollegePayloads, fault \in FsFaults, cut \in Cuts :
                  Invalid(payload, "location") /\ AdminColleges(payload, fault, cut),
               resp'.status = 400 /\ store' = store /\ files' = files)
       /\ Only(\E payload \in ScholarshipPayloads, fault \in FsFaults, cut \in Cuts :
                  Invalid(payload, "category") /\ AdminScholarships(payload, fault, cut),
               resp'.status = 400 /\ store' = store /\ files' = files)]_vars

\* A payload has just been rejected for an element, with colleges non-empty.
C2_Witness ==
    /\ resp = Response(400, [error |-> "Each item must include at least 'name' and 'location'"])
    /\ IsArray(colleges) /\ Len(colleges.items) > 0
    /\ fileColleges.exists

\* C3: after a replace, the file and the binding both hold the new payload,
\* or both are what they were before it.
C3_AllOrNothing ==
    [][/\ \A payload \in CollegePayloads, fault \in FsFaults, cut \in Cuts :
             AdminColleges(payload, fault, cut) =>
                 \/ colleges' = payload /\ ReadJSON(fileColleges') = Ok(payload)
                 \/ colleges' = colleges /\ fileColleges' = fileColleges
       /\ \A payload \in ScholarshipPayloads, fault \in FsFaults, cut \in Cuts :
             AdminScholarships(payload, fault, cut) =>
                 \/ scholarships' = payload /\ ReadJSON(fileScholarships') = Ok(payload)
                 \/ scholarships' = scholarships /\ fileScholarships' = fileScholarships]_vars

\* C4: once the server serves, the three bindings are arrays.
C4_AlwaysSequences ==
    phase = "serving" => IsArray(colleges) /\ IsArray(scholarships) /\ IsArray(universities)

-----------------------------------------------------------------------------
(* Reads *)

ReadStep ==
    \/ GetColleges \/ GetScholarships \/ GetStats \/ GetUniversities
    \/ GetCollegesSearch \/ GetCollegesSearchCommon
    \/ PostCampusConnect \/ MainUniversities \/ MainColleges \/ MainScholarships
    \/ MainGenerateContent \/ GenerateContentSettles

SuccessfulReplace == (ReplaceColleges \/ ReplaceScholarships) /\ resp'.status = 200

Counts == Stats(colleges, scholarships, universities)

\* C9: a read handler changes no binding and no file; the counts the stats
\* handler answers with change only in a step that is a successful replace.
C9_ReadsChangeNothing ==
    [][/\ Only(ReadStep, store' = store /\ files' = files)
       /\ Only(phase = "serving" /\ ~SuccessfulReplace, Counts' = Counts)
       /\ GetStats => resp' = Counts]_vars

\* The stats were just served, after a replace that failed on its write.
C9_Witness ==
    /\ resp = Counts /\ resp.status = 200
    /\ fileColleges = FileOf("")
    /\ pending # {}

-----------------------------------------------------------------------------
(* The prompt of a campus-connect call *)

TextsOf(entered) ==
    [universitiesText |-> UniversitiesText(entered[3]).value,
     collegesText |-> CollegesText(entered[1]).value,
     scholarshipsText |-> ScholarshipsText(entered[2]).value]

Done(pc) ==
    CASE pc = "universities" -> {}
      [] pc = "colleges" -> {"universitiesText"}
      [] pc = "scholarships" -> {"universitiesText", "collegesText"}
      [] pc = "call" -> {"universitiesText", "collegesText", "scholarshipsText"}
      [] OTHER -> {}

OneStoreState ==
    /\ running # Idle =>
          /\ store = running.entered
          /\ \A f \in Done(running.pc) : running[f] = TextsOf(store)[f]
    /\ \A call \in pending :
          \A f \in {"universitiesText", "collegesText", "scholarshipsText"} :
              call.prompt[f] = TextsOf(call.entered)[f]

\* C10: while main() builds a prompt the bindings are those it was entered
\* with, each block read so far is the text of those bindings, the prompt of a
\* suspended call is the text of the bindings its main() was entered with, and
\* a replace changes the prompt of no suspended call.
C10_PromptFromOneState ==
    /\ []OneStoreState
    /\ [][Only(ReplaceColleges \/ ReplaceScholarships,
               pending' = pending /\ running' = running)]_vars

\* A replace has completed while a call is suspended on generateContent.
C10_Witness ==
    \E call \in pending : call.entered # store /\ resp.status = 200 /\ Has(resp.body, "ok")

-----------------------------------------------------------------------------
(* The caps of the prompt *)

IsPrefix(a, b) == Len(a) <= Len(b) /\ SubSeq(b, 1, Len(a)) = a

\* text is the compact serialization of the first records of v, at most
\* maxRecords of them, cut to at most maxChars characters
Capped(text, v, maxRecords, maxChars) ==
    /\ Len(text) <= maxChars
    /\ IsArray(v) =>
          LET k == Min(maxRecords, Len(v.items))
              whole == JSONstringify(Arr(SubSeq(v.items, 1, k)), "")
          IN  /\ IsPrefix(text, whole)
              /\ Len(text) = Min(maxChars, Len(whole))

\* C8: each block of a prompt handed to generateContent is the serialization
\* of the first records of its dataset (100, 200, 200) cut to 5000, 20000 and
\* 12000 characters, whatever the other two datasets hold.
C8_ContextBounded ==
    \A call \in pending :
        /\ Capped(call.prompt.universitiesText, call.entered[3], 100, 5000)
        /\ Capped(call.prompt.collegesText, call.entered[1], 200, 20000)
        /\ Capped(call.prompt.scholarshipsText, call.entered[2], 200, 12000)

\* A prompt built from more records than every record cap allows, with the
\* colleges and the scholarships block cut at their character caps.
C8_Witness ==
    \E call \in pending :
        /\ Len(call.entered[3].items) > 100
        /\ Len(call.entered[1].items) > 200
        /\ IsArray(call.entered[2]) /\ Len(call.entered[2].items) = 200
        /\ Len(call.prompt.collegesText) = 20000
        /\ Len(call.prompt.scholarshipsText) = 12000

====
